---- MODULE Spec2Model ----
(***************************************************************************)
(* Issue-state cache, status-transition ledger, CFD snapshot store and     *)
(* sync reconciliation of the kanban CLI (package db and cmd/sync).        *)
(*                                                                         *)
(* Conventions                                                             *)
(*   - a nullable SQL column / Go pointer is Null (<<>>) or Some(v);       *)
(*   - a stored DATETIME is a pair <<t, fmt>>: t is the instant (whole     *)
(*     hours), fmt is the text format the writer produced: "sql" for       *)
(*     CURRENT_TIMESTAMP ("YYYY-MM-DD HH:MM:SS"), "go" for a bound Go      *)
(*     time.Time (text ending in " +0000 UTC");                            *)
(*   - title, assignee, current_type and current_size are copied by the    *)
(*     same statements as current_priority and are not carried; the        *)
(*     pull_requests table is not carried.                                 *)
(***************************************************************************)
EXTENDS Integers, Sequences, FiniteSets, Bags, TLC

(***************************************************************************)
(* Bounds                                                                  *)
(***************************************************************************)
MaxTime == 2
MaxTransitions == 2
MaxEvents == 2
MaxBlockedRows == 2
NumCallers == 2
MaxCalls == 2
MaxResolveTime == 4
MaxResolves == 2

\* issue numbers of the modelled repository
Numbers == {1}

\* dbRepo.ID of the repository whose issues are carried
SyncedRepo == 1

VARIABLES
  db,        \* the SQLite tables
  now,       \* wall clock, whole hours
  remote,    \* the tracker's issues: number -> fetched record and timeline
  lastSync,  \* options of the latest sync while the remote is unchanged since
  rerun,     \* set by a sync repeated over an unchanged remote: the store before it
  lastSave,  \* arguments of the latest SaveCFDSnapshot call
  calls,     \* per caller: the GetOrCreateOrg / GetOrCreateRepo call in progress
  run,       \* the sync run: options, workers, semaphore, collected errors
  tracker,   \* the tracker's labels per repository and the label calls received
  metrics,   \* the issues a metrics command reads, and what it returned
  resolver   \* the label events of one issue, and what the resolver returned

vars == <<db, now, remote, lastSync, rerun, lastSave, calls, run, tracker, metrics, resolver>>

(***************************************************************************)
(* Nullable values and stored date-times                                   *)
(***************************************************************************)
Null == <<>>
Some(v) == <<v>>

Coalesce(a, b) == IF a # Null THEN a ELSE b

\* a Go time.Time bound as a statement parameter
GoTime(t) == <<t, "go">>
\* CURRENT_TIMESTAMP evaluated at instant t
SqlTime(t) == <<t, "sql">>
\* a *time.Time parameter: nil binds NULL
GoPtr(p) == IF p = Null THEN Null ELSE Some(GoTime(p[1]))

nullString(s) == IF s = "" THEN Null ELSE Some(s)

(***************************************************************************)
(* Statuses                                                                *)
(***************************************************************************)
TrackedStatuses == {"ready", "in-progress", "review", "testing", "done"}

EnteredColumns ==
  {"entered_ready_at", "entered_progress_at", "entered_review_at",
   "entered_testing_at", "entered_done_at"}

\* the column switch of updateStatusTimestamp
ColumnOf(status) ==
  CASE status = "ready" -> "entered_ready_at"
    [] status = "in-progress" -> "entered_progress_at"
    [] status = "review" -> "entered_review_at"
    [] status = "testing" -> "entered_testing_at"
    [] status = "done" -> "entered_done_at"
    [] OTHER -> ""

(***************************************************************************)
(* Store helpers                                                           *)
(***************************************************************************)
EmptyDB ==
  [issues |-> <<>>,
   status_transitions |-> <<>>,
   blocked_periods |-> <<>>,
   cfd_data |-> EmptyBag,
   organizations |-> <<>>,
   repositories |-> <<>>,
   labels |-> {},
   sync_history |-> <<>>]

\* numbers of the rows `WHERE id = ?` selects
RowsWithId(st, id) == {n \in DOMAIN st.issues : st.issues[n].id = id}

\* UPDATE issues SET <f> WHERE id = ?
UpdateWhereId(st, id, f(_)) ==
  [st EXCEPT !.issues =
     [n \in DOMAIN st.issues |->
        IF st.issues[n].id = id THEN f(st.issues[n]) ELSE st.issues[n]]]

RecordStatusTransitionSwapped(st, issueID, fromStatus, toStatus, transitionedAt) ==
  [st EXCEPT !.status_transitions =
     Append(@, [issue_id |-> issueID,
                from_status |-> nullString(toStatus),
                to_status |-> fromStatus,
                transitioned_at |-> transitionedAt])]

RecordStatusTransition(st, issueID, fromStatus, toStatus, transitionedAt) ==
  [st EXCEPT !.status_transitions =
     Append(@, [issue_id |-> issueID,
                from_status |-> nullString(fromStatus),
                to_status |-> toStatus,
                transitioned_at |-> transitionedAt])]

StampAlways(row, column, t) == [row EXCEPT ![column] = Some(SqlTime(t))]

StampIfNull(row, column, t) ==
  IF row[column] = Null THEN [row EXCEPT ![column] = Some(SqlTime(t))] ELSE row

updateStatusTimestamp(st, issueID, status, t) ==
  LET column == ColumnOf(status)
      set(row) == StampIfNull(row, column, t)
  IN IF column # "" THEN UpdateWhereId(st, issueID, set) ELSE st

InsertedRow(id, issue) ==
  [id |-> id,
   repo_id |-> issue.RepoID,
   number |-> issue.Number,
   state |-> issue.State,
   gh_created_at |-> Some(GoTime(issue.GHCreatedAt)),
   gh_updated_at |-> Some(GoTime(issue.GHUpdatedAt)),
   gh_closed_at |-> GoPtr(issue.GHClosedAt),
   current_status |-> nullString(issue.CurrentStatus),
   current_priority |-> nullString(issue.CurrentPriority),
   is_blocked |-> issue.IsBlocked,
   entered_ready_at |-> GoPtr(issue.EnteredReadyAt),
   entered_progress_at |-> GoPtr(issue.EnteredProgressAt),
   entered_review_at |-> GoPtr(issue.EnteredReviewAt),
   entered_testing_at |-> GoPtr(issue.EnteredTestingAt),
   entered_done_at |-> GoPtr(issue.EnteredDoneAt),
   lead_time_hours |-> Some(issue.LeadTimeHours),
   cycle_time_hours |-> Some(issue.CycleTimeHours),
   blocked_time_hours |-> Some(issue.BlockedTimeHours)]

UpdatedRow(row, issue) ==
  [row EXCEPT
     !.state = issue.State,
     !.gh_updated_at = Some(GoTime(issue.GHUpdatedAt)),
     !.gh_closed_at = GoPtr(issue.GHClosedAt),
     !.current_status = nullString(issue.CurrentStatus),
     !.current_priority = nullString(issue.CurrentPriority),
     !.is_blocked = issue.IsBlocked,
     !.lead_time_hours = Some(issue.LeadTimeHours),
     !.cycle_time_hours = Some(issue.CycleTimeHours),
     !.blocked_time_hours = Some(issue.BlockedTimeHours)]

StatusChangedOrUnset(oldStatus, newStatus) ==
  oldStatus = "" \/ oldStatus # newStatus

\* the status comparison of the update path
StatusChanged(oldStatus, newStatus) == oldStatus # newStatus

ProcessingTimeCreated(issue, t) == Some(GoTime(issue.GHCreatedAt))

\* the time.Now() bound as transitioned_at on the update path
ProcessingTime(issue, t) == Some(GoTime(t))

\* the id UpsertIssue leaves in issue.ID
IssueID(st, number) ==
  IF number \in DOMAIN st.issues THEN st.issues[number].id ELSE 0

UpsertIssue(st, issue, t) ==
  IF issue.Number \notin DOMAIN st.issues
  THEN LET id == Cardinality(DOMAIN st.issues) + 1
           st1 == [st EXCEPT !.issues =
                     (issue.Number :> InsertedRow(id, issue)) @@ st.issues]
       IN IF issue.CurrentStatus # ""
          THEN RecordStatusTransition(st1, id, "", issue.CurrentStatus,
                                      Some(GoTime(issue.GHUpdatedAt)))
          ELSE st1
  ELSE LET existing == st.issues[issue.Number]
           oldStatus == IF existing.current_status # Null
                        THEN existing.current_status[1] ELSE ""
           st1 == IF StatusChanged(oldStatus, issue.CurrentStatus)
                  THEN updateStatusTimestamp(
                         RecordStatusTransition(st, existing.id, oldStatus,
                                                issue.CurrentStatus,
                                                ProcessingTime(issue, t)),
                         existing.id, issue.CurrentStatus, t)
                  ELSE st
           upd(row) == UpdatedRow(row, issue)
       IN UpdateWhereId(st1, existing.id, upd)

\* one iteration of the loop of UpsertIssueBatch: check, then insert or update
BatchStep(st, issue) ==
  IF issue.Number \notin DOMAIN st.issues
  THEN [st EXCEPT !.issues =
          (issue.Number :> InsertedRow(Cardinality(DOMAIN st.issues) + 1, issue))
             @@ st.issues]
  ELSE LET upd(row) == UpdatedRow(row, issue)
       IN UpdateWhereId(st, st.issues[issue.Number].id, upd)

RECURSIVE BatchLoop(_, _, _)
BatchLoop(st, issues, k) ==
  IF k > Len(issues) THEN st
  ELSE BatchLoop(BatchStep(st, issues[k]), issues, k + 1)

UpsertIssueBatchRewriting(st, issues) ==
  LET st1 == BatchLoop(st, issues, 1)
  IN [st1 EXCEPT !.status_transitions =
        IF Len(@) > 0 /\ Len(issues) > 0
        THEN [@ EXCEPT ![Len(@)].to_status = issues[Len(issues)].CurrentStatus]
        ELSE @]

\* the committed transaction of UpsertIssueBatch
UpsertIssueBatch(st, issues) ==
  IF Len(issues) = 0 THEN st ELSE BatchLoop(st, issues, 1)

(***************************************************************************)
(* Timing columns                                                          *)
(***************************************************************************)
\* REPLACE(REPLACE(x, ' +0000 UTC', ''), ' UTC', '')
StripGoSuffix(x) == IF x = Null THEN Null ELSE Some(SqlTime(x[1][1]))

\* julianday(x) * 24: NULL for NULL and for text SQLite cannot parse as a date
julianday(x) ==
  IF x = Null THEN Null
  ELSE IF x[1][2] = "sql" THEN Some(x[1][1]) ELSE Null

\* SQL subtraction: NULL if either operand is NULL
SqlMinus(a, b) == IF a = Null \/ b = Null THEN Null ELSE Some(a[1] - b[1])

CycleTimeOf(row) ==
  IF row.entered_progress_at # Null
     /\ (row.entered_done_at # Null \/ row.gh_closed_at # Null)
  THEN SqlMinus(
         SqlMinus(julianday(StripGoSuffix(Coalesce(row.entered_done_at, row.gh_closed_at))),
                  julianday(StripGoSuffix(row.entered_progress_at))),
         Coalesce(row.blocked_time_hours, Some(0)))
  ELSE Null

LeadTimeOf(row) ==
  IF row.entered_done_at # Null \/ row.gh_closed_at # Null
  THEN SqlMinus(julianday(StripGoSuffix(Coalesce(row.entered_done_at, row.gh_closed_at))),
                julianday(row.gh_created_at))
  ELSE Null

RecalcCycleTime(st, issueID) ==
  LET set(row) == [row EXCEPT !.cycle_time_hours = CycleTimeOf(row),
                              !.lead_time_hours = LeadTimeOf(row)]
  IN UpdateWhereId(st, issueID, set)

TimestampMerge(param, column) == Coalesce(GoPtr(param), column)

UpdateIssueTimestamps(st, issueID, ready, progress, review, testing, done) ==
  LET set(row) ==
        [row EXCEPT
           !.entered_ready_at = TimestampMerge(ready, @),
           !.entered_progress_at = TimestampMerge(progress, @),
           !.entered_review_at = TimestampMerge(review, @),
           !.entered_testing_at = TimestampMerge(testing, @),
           !.entered_done_at = TimestampMerge(done, @)]
  IN UpdateWhereId(st, issueID, set)

UpdateIssueBlockedTime(st, issueID, totalHours) ==
  LET set(row) == [row EXCEPT !.blocked_time_hours = Some(totalHours),
                              !.is_blocked = (totalHours > 0)]
  IN UpdateWhereId(st, issueID, set)

BlockedRow(issueID, blockedAt, unblockedAt, reason) ==
  [issue_id |-> issueID,
   blocked_at |-> GoPtr(blockedAt),
   unblocked_at |-> GoPtr(unblockedAt),
   duration_hours |-> IF unblockedAt # Null /\ blockedAt # Null
                      THEN unblockedAt[1] - blockedAt[1] ELSE 0,
   reason |-> nullString(reason)]

InsertBlockedPeriod(table, row) == Append(table, row)

RecordBlockedPeriod(st, issueID, blockedAt, unblockedAt, reason) ==
  [st EXCEPT !.blocked_periods =
     InsertBlockedPeriod(@, BlockedRow(issueID, blockedAt, unblockedAt, reason))]

(***************************************************************************)
(* Label classification (strings.ToLower / HasPrefix / TrimPrefix /        *)
(* TrimSpace over the labels the remote can carry)                         *)
(***************************************************************************)
StatusLabels ==
  {"status:backlog", "status:ready", "status: in-progress", "status:review",
   "status:testing", "status:done"}

LabelUniverse == StatusLabels \cup {"Status:Review", "priority:high", "blocked"}

\* strings.ToLower over LabelUniverse
ToLower(label) == IF label = "Status:Review" THEN "status:review" ELSE label

LabelPrefix(lower) ==
  IF lower \in StatusLabels THEN "status:"
  ELSE IF lower = "priority:high" THEN "priority:" ELSE ""

\* strings.TrimSpace(strings.TrimPrefix(lower, prefix))
LabelValue(lower) ==
  CASE lower = "status:backlog" -> "backlog"
    [] lower = "status:ready" -> "ready"
    [] lower = "status: in-progress" -> "in-progress"
    [] lower = "status:review" -> "review"
    [] lower = "status:testing" -> "testing"
    [] lower = "status:done" -> "done"
    [] lower = "priority:high" -> "high"
    [] OTHER -> lower

extractStatus(label) ==
  IF LabelPrefix(ToLower(label)) = "status:"
  THEN LabelValue(ToLower(label)) ELSE ToLower(label)

\* the label loop of runSync over issue.Labels[k..]
RECURSIVE ParseLabels(_, _, _)
ParseLabels(labels, k, acc) ==
  IF k > Len(labels) THEN acc
  ELSE LET label == labels[k]
           lower == ToLower(label)
       IN ParseLabels(labels, k + 1,
            IF LabelPrefix(lower) = "status:"
            THEN [acc EXCEPT !.CurrentStatus = LabelValue(lower)]
            ELSE IF LabelPrefix(lower) = "priority:"
            THEN [acc EXCEPT !.CurrentPriority = LabelValue(lower)]
            ELSE IF label = "blocked"
            THEN [acc EXCEPT !.IsBlocked = TRUE]
            ELSE acc)

LowerState(state) == IF state = "OPEN" THEN "open" ELSE "closed"

\* the db.Issue runSync builds from a fetched issue (zero time is 0)
BuildIssue(repoID, ri) ==
  LET base == [RepoID |-> repoID,
               Number |-> ri.Number,
               State |-> LowerState(ri.State),
               GHCreatedAt |-> ri.CreatedAt,
               GHUpdatedAt |-> ri.UpdatedAt,
               GHClosedAt |-> IF ri.ClosedAt # 0 THEN Some(ri.ClosedAt) ELSE Null,
               CurrentStatus |-> "",
               CurrentPriority |-> "",
               IsBlocked |-> FALSE,
               EnteredReadyAt |-> Null,
               EnteredProgressAt |-> Null,
               EnteredReviewAt |-> Null,
               EnteredTestingAt |-> Null,
               EnteredDoneAt |-> Null,
               LeadTimeHours |-> 0,
               CycleTimeHours |-> 0,
               BlockedTimeHours |-> 0]
      parsed == ParseLabels(ri.Labels, 1, base)
  IN IF parsed.GHClosedAt # Null
     THEN [parsed EXCEPT
             !.LeadTimeHours = parsed.GHClosedAt[1] - parsed.GHCreatedAt,
             !.CurrentStatus = IF @ = "" THEN "done" ELSE @]
     ELSE parsed

(***************************************************************************)
(* Timeline resolver                                                       *)
(***************************************************************************)
\* duration of a blocked interval the event list leaves open
OpenDurationNone(blockedStart, t) == 0

\* time.Since(blockedStart).Hours()
OpenDuration(blockedStart, t) == t - blockedStart

\* the event loop of GetIssueTimeline over events[k..]; blockedStart 0 is the
\* zero time
RECURSIVE WalkEvents(_, _, _, _)
WalkEvents(events, k, blockedStart, result) ==
  IF k > Len(events) THEN [result |-> result, blockedStart |-> blockedStart]
  ELSE LET e == events[k]
           lower == ToLower(e.Label)
           status == extractStatus(e.Label)
           r1 == IF e.Event = "labeled" /\ LabelPrefix(lower) = "status:"
                    /\ status \notin DOMAIN result.StatusChanges
                 THEN [result EXCEPT !.StatusChanges = (status :> e.CreatedAt) @@ @]
                 ELSE result
           start1 == IF e.Event = "labeled" /\ lower = "blocked"
                     THEN e.CreatedAt ELSE blockedStart
           closes == e.Event = "unlabeled" /\ lower = "blocked" /\ start1 # 0
           r2 == IF closes
                 THEN [r1 EXCEPT
                         !.BlockedPeriods =
                            Append(@, [Start |-> start1, End |-> e.CreatedAt,
                                       Duration |-> e.CreatedAt - start1]),
                         !.TotalBlocked = @ + (e.CreatedAt - start1)]
                 ELSE r1
       IN WalkEvents(events, k + 1, IF closes THEN 0 ELSE start1, r2)

GetIssueTimeline(events, t) ==
  LET w == WalkEvents(events, 1, 0,
                      [StatusChanges |-> <<>>, BlockedPeriods |-> <<>>,
                       TotalBlocked |-> 0])
  IN IF w.blockedStart # 0
     THEN [w.result EXCEPT
             !.BlockedPeriods =
                Append(@, [Start |-> w.blockedStart, End |-> 0,
                           Duration |-> OpenDuration(w.blockedStart, t)]),
             !.TotalBlocked = @ + OpenDuration(w.blockedStart, t)]
     ELSE w.result

(***************************************************************************)
(* Reconciliation of one fetched issue (loop body of runSync)              *)
(***************************************************************************)
StatusChangeOf(timeline, status) ==
  IF status \in DOMAIN timeline.StatusChanges
  THEN Some(timeline.StatusChanges[status]) ELSE Null

RECURSIVE RecordBlockedPeriods(_, _, _, _)
RecordBlockedPeriods(st, issueID, periods, k) ==
  IF k > Len(periods) THEN st
  ELSE RecordBlockedPeriods(
         RecordBlockedPeriod(st, issueID, Some(periods[k].Start),
                             IF periods[k].End # 0 THEN Some(periods[k].End) ELSE Null,
                             ""),
         issueID, periods, k + 1)

ApplyTimeline(st, issueID, timeline) ==
  LET st1 == UpdateIssueTimestamps(st, issueID,
               StatusChangeOf(timeline, "ready"),
               StatusChangeOf(timeline, "in-progress"),
               StatusChangeOf(timeline, "review"),
               StatusChangeOf(timeline, "testing"),
               StatusChangeOf(timeline, "done"))
      st2 == RecordBlockedPeriods(st1, issueID, timeline.BlockedPeriods, 1)
      st3 == IF timeline.TotalBlocked > 0
             THEN UpdateIssueBlockedTime(st2, issueID, timeline.TotalBlocked)
             ELSE st2
  IN RecalcCycleTime(st3, issueID)

SyncIssue(st, repoID, ri, events, withTimeline, t) ==
  LET dbIssue == BuildIssue(repoID, ri)
      st1 == UpsertIssue(st, dbIssue, t)
      id == IssueID(st1, ri.Number)
      st2 == IF dbIssue.GHClosedAt # Null THEN RecalcCycleTime(st1, id) ELSE st1
  IN IF withTimeline /\ dbIssue.CurrentStatus # ""
     THEN ApplyTimeline(st2, id, GetIssueTimeline(events, t))
     ELSE st2

(***************************************************************************)
(* Store operations called directly, with the issues callers build         *)
(***************************************************************************)
InputLabelSeqs ==
  {<<>>, <<"status: in-progress">>, <<"status:done">>,
   <<"status: in-progress", "blocked">>, <<"priority:high", "Status:Review">>}

FetchedIssue(n, closed, created, labels, t) ==
  [Number |-> n,
   State |-> IF closed THEN "CLOSED" ELSE "OPEN",
   CreatedAt |-> created,
   UpdatedAt |-> t,
   ClosedAt |-> IF closed THEN t ELSE 0,
   Labels |-> labels]

InputIssues(t) ==
  {BuildIssue(SyncedRepo, FetchedIssue(n, closed, 1, labels, t)) :
     n \in Numbers, closed \in BOOLEAN, labels \in InputLabelSeqs}

InputBlockedHours == {0, 1}

InputTracked == {"in-progress", "done"}

\* instants of the label events a timeline reports
InputInstants == {1}

TimestampParam(S, s, t) == IF s \in S THEN Some(t) ELSE Null

IssueIDs(st) == {st.issues[n].id : n \in DOMAIN st.issues}

(***************************************************************************)
(* CFD snapshot store                                                      *)
(***************************************************************************)
HoursPerDay == 24


\* date.Format("2006-01-02")
FormatDate(t) == t \div HoursPerDay

CfdKey(row) == <<row.repo_id, row.snapshot_date, row.status>>

\* INSERT OR REPLACE INTO cfd_data: UNIQUE(repo_id, snapshot_date, status)
InsertOrReplace(table, row) ==
  LET kept == {r \in BagToSet(table) : CfdKey(r) # CfdKey(row)}
  IN [r \in kept |-> CopiesIn(r, table)] (+) SetToBag({row})

\* the range loop of SaveCFDSnapshot over the statuses not yet written
RECURSIVE SaveRows(_, _, _, _, _)
SaveRows(table, repoID, day, statusCounts, todo) ==
  IF todo = {} THEN table
  ELSE LET status == CHOOSE x \in todo : TRUE
       IN SaveRows(InsertOrReplace(table,
                     [repo_id |-> repoID, snapshot_date |-> day,
                      status |-> status,
                      cumulative_count |-> statusCounts[status]]),
                   repoID, day, statusCounts, todo \ {status})

SaveCFDSnapshot(st, repoID, date, statusCounts) ==
  [st EXCEPT !.cfd_data =
     SaveRows(@, repoID, FormatDate(date), statusCounts, DOMAIN statusCounts)]

\* time.Parse("2006-01-02", s)
ParseDate(day) == day * HoursPerDay

\* t.Truncate(24 * time.Hour)
Truncate(t) == (t \div HoursPerDay) * HoursPerDay

\* SELECT MAX(snapshot_date) FROM cfd_data WHERE repo_id = ?
GetLastCFDSnapshot(st, repoID) ==
  LET days == {r.snapshot_date :
                 r \in {x \in BagToSet(st.cfd_data) : x.repo_id = repoID}}
  IN IF days = {} THEN Null
     ELSE Some(ParseDate(CHOOSE d \in days : \A o \in days : o <= d))

\* open issues of the repository per COALESCE(current_status, 'none')
GetStatusCounts(st, repoID) ==
  LET open == {n \in DOMAIN st.issues :
                 st.issues[n].repo_id = repoID /\ st.issues[n].state = "open"}
      statusOf(n) == IF st.issues[n].current_status = Null
                     THEN "none" ELSE st.issues[n].current_status[1]
  IN [s \in {statusOf(n) : n \in open} |->
        Cardinality({n \in open : statusOf(n) = s})]

\* the snapshot the sync worker takes once per day after a repository's sync
AutoSnapshot(st, repoID, t) ==
  LET today == Truncate(t)
      lastSnapshot == GetLastCFDSnapshot(st, repoID)
      counts == GetStatusCounts(st, repoID)
  IN IF (lastSnapshot = Null \/ Truncate(lastSnapshot[1]) # today)
        /\ DOMAIN counts # {}
     THEN SaveCFDSnapshot(st, repoID, today, counts)
     ELSE st

(***************************************************************************)
(* Organizations and repositories                                          *)
(***************************************************************************)
Callers == 1..NumCallers

IdleCall(n) == [pc |-> "idle", kind |-> "", arg |-> Null, found |-> Null,
                result |-> Null, err |-> FALSE, made |-> n]

\* AUTOINCREMENT over a table that never loses rows
NextId(table) == Len(table) + 1

\* SELECT id FROM organizations WHERE name = ?
SelectOrg(st, name) ==
  LET hits == {k \in DOMAIN st.organizations : st.organizations[k].name = name}
  IN IF hits = {} THEN Null
     ELSE Some(st.organizations[CHOOSE k \in hits : \A o \in hits : k <= o].id)

\* SELECT id FROM repositories WHERE full_name = ?
SelectRepo(st, fullName) ==
  LET hits == {k \in DOMAIN st.repositories :
                 st.repositories[k].full_name = fullName}
  IN IF hits = {} THEN Null
     ELSE Some(st.repositories[CHOOSE k \in hits : \A o \in hits : k <= o].id)

OrgConflictUnchecked(st, name) == FALSE

\* organizations.name UNIQUE
OrgConflict(st, name) ==
  \E k \in DOMAIN st.organizations : st.organizations[k].name = name

\* repositories.full_name UNIQUE and UNIQUE(org_id, name)
RepoConflict(st, orgID, name, fullName) ==
  \E k \in DOMAIN st.repositories :
     \/ st.repositories[k].full_name = fullName
     \/ (st.repositories[k].org_id = orgID /\ st.repositories[k].name = name)

(***************************************************************************)
(* Labels: configuration, cache (labels table) and the tracker's lists     *)
(***************************************************************************)
Label(name, color, description) ==
  [Name |-> name, Color |-> color, Description |-> description]

\* the rows GetLabelsByRepo returns, as config-shaped labels
GetLabelsByRepo(st, repoID) ==
  {Label(r.name, r.color, r.description) :
     r \in {x \in st.labels : x.repo_id = repoID}}

LabelsNeedSyncAlways(st, repoID, labels) == TRUE

\* TRUE if a configured label is missing from the cache or differs in color
\* or description
LabelsNeedSync(st, repoID, labels) ==
  LET cached == GetLabelsByRepo(st, repoID)
  IN \E i \in DOMAIN labels :
        \/ ~\E c \in cached : c.Name = labels[i].Name
        \/ \E c \in cached :
              /\ c.Name = labels[i].Name
              /\ (c.Color # labels[i].Color
                  \/ c.Description # labels[i].Description)

\* INSERT INTO labels ... ON CONFLICT(repo_id, name) DO UPDATE
UpsertLabel(st, repoID, label) ==
  [st EXCEPT !.labels =
     {r \in @ : ~(r.repo_id = repoID /\ r.name = label.Name)}
       \cup {[repo_id |-> repoID, name |-> label.Name, color |-> label.Color,
               description |-> label.Description]}]

RECURSIVE UpsertLabels(_, _, _, _)
UpsertLabels(st, repoID, labels, k) ==
  IF k > Len(labels) THEN st
  ELSE UpsertLabels(UpsertLabel(st, repoID, labels[k]), repoID, labels, k + 1)

\* the tracker's labels of a repository (client.ListLabels)
ListLabels(trk, repoName) ==
  IF repoName \in DOMAIN trk.labels THEN trk.labels[repoName] ELSE {}

\* the label loop of SyncLabels over labels[k..] against the list fetched at
\* its start; acc is the tracker so far
RECURSIVE SyncLabelsLoop(_, _, _, _, _)
SyncLabelsLoop(acc, repoName, current, labels, k) ==
  IF k > Len(labels) THEN acc
  ELSE LET label == labels[k]
           existing == {c \in current : c.Name = label.Name}
           now1 == ListLabels(acc, repoName)
           put == {c \in now1 : c.Name # label.Name} \cup {label}
           issue(op) ==
             [acc EXCEPT
                !.labels = (repoName :> put) @@ @,
                !.calls = Append(@, [op |-> op, repo |-> repoName,
                                     name |-> label.Name])]
       IN SyncLabelsLoop(
            IF existing = {} THEN issue("create")
            ELSE IF \E c \in existing :
                       c.Color # label.Color \/ c.Description # label.Description
            THEN issue("edit")
            ELSE acc,
            repoName, current, labels, k + 1)

\* client.SyncLabels with dryRun false; listFails: ListLabels returns an error
SyncLabels(trk, repoName, labels, listFails) ==
  IF listFails THEN trk
  ELSE SyncLabelsLoop(trk, repoName, ListLabels(trk, repoName), labels, 1)

\* the label section of the worker: the store and the tracker after it, and
\* whether SyncLabels returned an error
LabelSection(st, trk, repoID, repoName, labels, issuesOnly, dryRun, listFails) ==
  IF ~issuesOnly /\ ~dryRun /\ LabelsNeedSync(st, repoID, labels)
  THEN [db |-> UpsertLabels(st, repoID, labels, 1),
        tracker |-> SyncLabels(trk, repoName, labels, listFails),
        err |-> listFails]
  ELSE [db |-> st, tracker |-> trk, err |-> FALSE]

\* before runSync is invoked
IdleRun == [phase |-> "idle"]

\* no metrics command was run
NoMetrics == [mode |-> "none"]

NoTimeline == [events |-> <<>>, labels |-> {}, runs |-> <<>>]

\* no repository has labels yet and no label call was received
EmptyTracker == [labels |-> <<>>, calls |-> <<>>, sync |-> Null]

Init ==
  /\ db = EmptyDB
  /\ now = 1
  /\ remote = <<>>
  /\ lastSync = "none"
  /\ rerun = Null
  /\ lastSave = Null
  /\ calls = [c \in Callers |-> IdleCall(0)]
  /\ run = IdleRun
  /\ tracker = EmptyTracker
  /\ metrics = NoMetrics
  /\ resolver = NoTimeline

Tick ==
  /\ now < MaxTime
  /\ now' = now + 1
  /\ UNCHANGED <<db, remote, lastSync, rerun, lastSave, calls, run, tracker, metrics, resolver>>

UpsertIssueCall ==
  /\ \E issue \in InputIssues(now) :
       /\ db' = UpsertIssue(db, issue, now)
       /\ Len(db'.status_transitions) <= MaxTransitions
  /\ UNCHANGED <<now, remote, lastSync, rerun, lastSave, calls, run, tracker, metrics, resolver>>

RecalcCycleTimeCall ==
  /\ \E id \in IssueIDs(db) : db' = RecalcCycleTime(db, id)
  /\ UNCHANGED <<now, remote, lastSync, rerun, lastSave, calls, run, tracker, metrics, resolver>>

UpdateIssueTimestampsCall ==
  /\ \E id \in IssueIDs(db), S \in SUBSET InputTracked, t \in InputInstants :
       db' = UpdateIssueTimestamps(db, id,
               TimestampParam(S, "ready", t), TimestampParam(S, "in-progress", t),
               TimestampParam(S, "review", t), TimestampParam(S, "testing", t),
               TimestampParam(S, "done", t))
  /\ UNCHANGED <<now, remote, lastSync, rerun, lastSave, calls, run, tracker, metrics, resolver>>

UpdateIssueBlockedTimeCall ==
  /\ \E id \in IssueIDs(db), h \in InputBlockedHours :
       db' = UpdateIssueBlockedTime(db, id, h)
  /\ UNCHANGED <<now, remote, lastSync, rerun, lastSave, calls, run, tracker, metrics, resolver>>

Next ==
  \/ Tick
  \/ UpsertIssueCall
  \/ RecalcCycleTimeCall
  \/ UpdateIssueTimestampsCall
  \/ UpdateIssueBlockedTimeCall

Spec == Init /\ [][Next]_vars

(***************************************************************************)
(* Every store operation a sync can reach that could touch the ledger      *)
(***************************************************************************)
\* the issues without priority and blocked labels
LedgerIssues ==
  {i \in InputIssues(1) : i.CurrentPriority = "" /\ ~i.IsBlocked}

InputBatches ==
  {<<>>} \cup {<<i>> : i \in LedgerIssues}
    \cup {<<i, j>> : i \in {x \in LedgerIssues : x.CurrentStatus = ""},
                     j \in LedgerIssues}

LedgerUpsertCall ==
  /\ \E issue \in LedgerIssues :
       /\ db' = UpsertIssue(db, issue, now)
       /\ Len(db'.status_transitions) <= MaxTransitions
  /\ UNCHANGED <<now, remote, lastSync, rerun, lastSave, calls, run, tracker, metrics, resolver>>

UpsertIssueBatchCall ==
  /\ \E issues \in InputBatches : db' = UpsertIssueBatch(db, issues)
  /\ UNCHANGED <<now, remote, lastSync, rerun, lastSave, calls, run, tracker, metrics, resolver>>

RecordStatusTransitionCall ==
  /\ Len(db.status_transitions) < MaxTransitions
  /\ \E id \in IssueIDs(db), from \in {""}, to \in InputTracked :
       db' = RecordStatusTransition(db, id, from, to, Some(GoTime(now)))
  /\ UNCHANGED <<now, remote, lastSync, rerun, lastSave, calls, run, tracker, metrics, resolver>>

\* the cfd command: today's snapshot of the status counts
SnapshotCall ==
  /\ DOMAIN GetStatusCounts(db, SyncedRepo) # {}
  /\ db' = SaveCFDSnapshot(db, SyncedRepo, Truncate(now),
                           GetStatusCounts(db, SyncedRepo))
  /\ UNCHANGED <<now, remote, lastSync, rerun, lastSave, calls, run, tracker, metrics, resolver>>

LedgerNext ==
  \/ LedgerUpsertCall
  \/ UpsertIssueBatchCall
  \/ RecordStatusTransitionCall
  \/ UpdateIssueTimestampsCall
  \/ RecalcCycleTimeCall
  \/ SnapshotCall

LedgerSpec == Init /\ [][LedgerNext]_vars

(***************************************************************************)
(* Label sync of one repository under changing configuration and remote    *)
(***************************************************************************)
LabelRepo == "api"

ConfigChoices ==
  {<<Label("bug", "d73a4a", "")>>,
   <<Label("bug", "ff0000", "")>>,
   <<Label("bug", "d73a4a", ""), Label("status:ready", "0e8a16", "Ready")>>}

RemoteLabelSets ==
  {{}, {Label("bug", "d73a4a", "")},
   {Label("bug", "d73a4a", ""), Label("status:ready", "0e8a16", "Ready")}}

\* one worker's label section, with the lists it started from
LabelSyncCall ==
  /\ \E labels \in ConfigChoices, listFails \in BOOLEAN :
       LET r == LabelSection(db, [tracker EXCEPT !.calls = <<>>], SyncedRepo,
                             LabelRepo, labels, FALSE, FALSE, listFails)
       IN /\ db' = r.db
          /\ tracker' =
               [r.tracker EXCEPT
                  !.sync = Some([config |-> labels,
                                 cached |-> GetLabelsByRepo(db, SyncedRepo),
                                 remote |-> ListLabels(tracker, LabelRepo),
                                 failed |-> r.err])]
  /\ UNCHANGED <<now, remote, lastSync, rerun, lastSave, calls, run, metrics, resolver>>

\* the tracker's labels are edited outside the tool
RemoteLabelEdit ==
  /\ \E set \in RemoteLabelSets :
       /\ set # ListLabels(tracker, LabelRepo)
       /\ tracker' = [labels |-> (LabelRepo :> set) @@ tracker.labels,
                      calls |-> <<>>, sync |-> Null]
  /\ UNCHANGED <<db, now, remote, lastSync, rerun, lastSave, calls, run, metrics, resolver>>

LabelNext ==
  \/ LabelSyncCall
  \/ RemoteLabelEdit

LabelSpec == Init /\ [][LabelNext]_vars

(***************************************************************************)
(* The tracker and the per-repository sync worker                          *)
(***************************************************************************)
RemoteLabels == {"status: in-progress", "status:done", "blocked"}

Event(kind, label, t) == [Event |-> kind, Label |-> label, CreatedAt |-> t]

Without(q, x) == SelectSeq(q, LAMBDA y : y # x)

Touch ==
  /\ lastSync' = "none"
  /\ rerun' = Null
  /\ UNCHANGED <<db, now, lastSave, calls, run, tracker, metrics, resolver>>

RemoteOpen ==
  /\ \E n \in Numbers \ DOMAIN remote :
       remote' = (n :> [Number |-> n, State |-> "OPEN", CreatedAt |-> now,
                        UpdatedAt |-> now, ClosedAt |-> 0, Labels |-> <<>>,
                        Events |-> <<>>]) @@ remote
  /\ Touch

RemoteLabel ==
  /\ \E n \in DOMAIN remote, l \in RemoteLabels :
       /\ \A k \in DOMAIN remote[n].Labels : remote[n].Labels[k] # l
       /\ Len(remote[n].Events) < MaxEvents
       /\ remote' = [remote EXCEPT ![n] =
                       [@ EXCEPT !.Labels = Append(@, l),
                                 !.Events = Append(@, Event("labeled", l, now)),
                                 !.UpdatedAt = now]]
  /\ Touch

RemoteUnlabel ==
  /\ \E n \in DOMAIN remote, l \in RemoteLabels :
       /\ \E k \in DOMAIN remote[n].Labels : remote[n].Labels[k] = l
       /\ Len(remote[n].Events) < MaxEvents
       /\ remote' = [remote EXCEPT ![n] =
                       [@ EXCEPT !.Labels = Without(@, l),
                                 !.Events = Append(@, Event("unlabeled", l, now)),
                                 !.UpdatedAt = now]]
  /\ Touch

RemoteClose ==
  /\ \E n \in DOMAIN remote :
       /\ remote[n].State = "OPEN"
       /\ remote' = [remote EXCEPT ![n] =
                       [@ EXCEPT !.State = "CLOSED", !.ClosedAt = now,
                                 !.UpdatedAt = now]]
  /\ Touch

\* the issue loop of the worker over the fetched issues, in list order
RECURSIVE SyncIssues(_, _, _, _, _, _)
SyncIssues(st, repoID, rem, todo, withTimeline, t) ==
  IF todo = {} THEN st
  ELSE LET n == CHOOSE m \in todo : \A o \in todo : m <= o
       IN SyncIssues(SyncIssue(st, repoID, rem[n], rem[n].Events, withTimeline, t),
                     repoID, rem, todo \ {n}, withTimeline, t)

SyncOption(withTimeline) == IF withTimeline THEN "timeline" ELSE "plain"

SyncRepo ==
  /\ remote # <<>>
  /\ \E withTimeline \in BOOLEAN :
       /\ db' = AutoSnapshot(
                   SyncIssues(db, SyncedRepo, remote, DOMAIN remote,
                              withTimeline, now),
                   SyncedRepo, now)
       /\ Len(db'.status_transitions) <= MaxTransitions
       /\ Len(db'.blocked_periods) <= MaxBlockedRows
       /\ lastSync' = SyncOption(withTimeline)
       /\ rerun' = IF lastSync = SyncOption(withTimeline) THEN Some(db) ELSE Null
  /\ UNCHANGED <<now, remote, lastSave, calls, run, tracker, metrics, resolver>>

SyncTick ==
  /\ now < MaxTime
  /\ now' = now + 1
  /\ rerun' = Null
  /\ UNCHANGED <<db, remote, lastSync, lastSave, calls, run, tracker, metrics, resolver>>

SyncNext ==
  \/ SyncTick
  \/ RemoteOpen
  \/ RemoteLabel
  \/ RemoteUnlabel
  \/ RemoteClose
  \/ SyncRepo

SyncSpec == Init /\ [][SyncNext]_vars

(***************************************************************************)
(* runSync: the orchestrator, its worker goroutines and the semaphore      *)
(***************************************************************************)
DefaultConcurrency == 5

Organization == "acme"

\* labels := cfg.AllLabels()
RunLabels == <<Label("bug", "d73a4a", "")>>

Flags(dry, lo, io, prs, tl) ==
  [dryRun |-> dry, labelsOnly |-> lo, issuesOnly |-> io, withPRs |-> prs,
   withTimeline |-> tl]

\* the flag combinations of the modelled invocations
RunOptions ==
  {Flags(FALSE, FALSE, FALSE, FALSE, FALSE),
   Flags(TRUE, FALSE, FALSE, FALSE, FALSE),
   Flags(FALSE, TRUE, FALSE, FALSE, FALSE),
   Flags(FALSE, FALSE, TRUE, FALSE, FALSE),
   Flags(FALSE, FALSE, FALSE, TRUE, FALSE),
   Flags(FALSE, FALSE, FALSE, FALSE, TRUE)}

\* settings.concurrency
ConcurrencySettings == {0, 1, 2}

\* the target lists: one repository, two, three, one named twice
RepoLists ==
  {<<"api">>, <<"api", "web">>, <<"api", "web", "docs">>, <<"api", "api">>}

\* the repositories for which the store or the tracker can return an error
FaultyRepos == {"web"}

\* the outcomes a call made for a repository can have: FALSE is success
Failing(repoName) == IF repoName \in FaultyRepos THEN BOOLEAN ELSE {FALSE}

\* concurrency := viper.GetInt(...); 0 means the default
ConcurrencyOf(setting) == IF setting = 0 THEN DefaultConcurrency ELSE setting

FullName(organization, repoName) == <<organization, repoName>>

\* GetOrCreateOrg run to its end by a single caller
GetOrCreateOrg(st, name) ==
  IF SelectOrg(st, name) # Null
  THEN [db |-> st, id |-> SelectOrg(st, name)[1]]
  ELSE [db |-> [st EXCEPT !.organizations =
                  Append(@, [id |-> NextId(@), name |-> name])],
        id |-> NextId(st.organizations)]

\* GetOrCreateRepo run to its end without another statement in between
GetOrCreateRepo(st, orgID, name, fullName) ==
  IF SelectRepo(st, fullName) # Null
  THEN [db |-> st, id |-> SelectRepo(st, fullName)[1]]
  ELSE [db |-> [st EXCEPT !.repositories =
                  Append(@, [id |-> NextId(@), org_id |-> orgID, name |-> name,
                             full_name |-> fullName, last_sync_at |-> Null])],
        id |-> NextId(st.repositories)]

RecordSyncStart(st, repoID, syncType, t) ==
  [st EXCEPT !.sync_history =
     Append(@, [id |-> NextId(@), repo_id |-> repoID, sync_type |-> syncType,
                started_at |-> Some(SqlTime(t)), completed_at |-> Null,
                status |-> "running", items_synced |-> 0,
                error_message |-> Null])]

RecordSyncComplete(st, syncID, itemsSynced, errMsg, t) ==
  [st EXCEPT !.sync_history =
     [k \in DOMAIN @ |->
        IF @[k].id = syncID
        THEN [@[k] EXCEPT !.completed_at = Some(SqlTime(t)),
                          !.status = IF errMsg # "" THEN "failed" ELSE "completed",
                          !.items_synced = itemsSynced,
                          !.error_message = nullString(errMsg)]
        ELSE @[k]]]

UpdateRepoSyncTime(st, repoID, t) ==
  [st EXCEPT !.repositories =
     [k \in DOMAIN @ |->
        IF @[k].id = repoID
        THEN [@[k] EXCEPT !.last_sync_at = Some(SqlTime(t))] ELSE @[k]]]

\* client.ListAllIssues: the carried issues belong to one repository
ListAllIssues(rem, repoName) == IF repoName = LabelRepo THEN rem ELSE <<>>

SpawnedWorker(repoName) ==
  [pc |-> "spawned", repoName |-> repoName, holds |-> FALSE, dbRepoID |-> 0,
   syncID |-> 0, itemsSynced |-> 0, syncErr |-> "", failures |-> {},
   completed |-> FALSE]

Workers(r) == DOMAIN r.workers

SemAlwaysFree(r) == TRUE

\* sem <- struct{}{} can proceed
SemFree(r) == r.sem < r.limit

SomeWorkerDone(r) == \E w \in Workers(r) : r.workers[w].pc = "done"

\* wg.Wait() can return
AllWorkersDone(r) == \A w \in Workers(r) : r.workers[w].pc = "done"

\* mu.Lock(); syncErrors = append(syncErrors, ...); mu.Unlock()
Collect(r, w, kind) ==
  [r EXCEPT !.syncErrors = Append(@, [repo |-> r.workers[w].repoName,
                                      kind |-> kind]),
            !.workers[w].failures = @ \cup {kind}]

\* runSync up to and including the loop that starts one goroutine per target
RunStart ==
  /\ run.phase = "idle"
  /\ \E flags \in RunOptions, setting \in ConcurrencySettings,
        repos \in RepoLists :
       LET o == GetOrCreateOrg(db, Organization)
       IN /\ db' = o.db
          /\ run' = [phase |-> "running", flags |-> flags,
                     setting |-> setting, limit |-> ConcurrencyOf(setting),
                     repos |-> repos,
                     orgID |-> o.id, sem |-> 0, syncErrors |-> <<>>,
                     reported |-> <<>>, result |-> "", before |-> db,
                     workers |-> [w \in DOMAIN repos |->
                                    SpawnedWorker(repos[w])]]
          /\ tracker' = [tracker EXCEPT !.calls = <<>>, !.sync = Null]
  /\ UNCHANGED <<now, remote, lastSync, rerun, lastSave, calls, metrics, resolver>>

\* sem <- struct{}{}
Acquire(w) ==
  /\ run.phase = "running"
  /\ run.workers[w].pc = "spawned"
  /\ SemFree(run)
  /\ run' = [run EXCEPT !.sem = @ + 1, !.workers[w].pc = "acquired",
                         !.workers[w].holds = TRUE]
  /\ UNCHANGED <<db, now, remote, lastSync, rerun, lastSave, calls, tracker, metrics, resolver>>

\* GetOrCreateRepo, RecordSyncStart and the label section; repoFails: the
\* store returns an error to GetOrCreateRepo (a locked database, or the UNIQUE
\* conflict with a concurrent creator of the same row)
Begin(w) ==
  /\ run.phase = "running"
  /\ run.workers[w].pc = "acquired"
  /\ \E repoFails \in Failing(run.workers[w].repoName),
        listFails \in Failing(run.workers[w].repoName) :
       IF repoFails
       THEN /\ ~listFails
            /\ run' = [Collect(run, w, "repo") EXCEPT !.workers[w].pc = "exiting"]
            /\ UNCHANGED <<db, tracker>>
       ELSE LET name == run.workers[w].repoName
                g == GetOrCreateRepo(db, run.orgID, name,
                                     FullName(Organization, name))
                st1 == RecordSyncStart(g.db, g.id, "full", now)
                ls == LabelSection(st1, tracker, g.id, name, RunLabels,
                                   run.flags.issuesOnly, run.flags.dryRun,
                                   listFails)
                r1 == [run EXCEPT !.workers[w].pc = "started",
                                  !.workers[w].dbRepoID = g.id,
                                  !.workers[w].syncID = NextId(g.db.sync_history)]
            IN /\ listFails => ls.err
               /\ db' = ls.db
               /\ tracker' = ls.tracker
               /\ run' = IF ls.err THEN Collect(r1, w, "labels") ELSE r1
  /\ UNCHANGED <<now, remote, lastSync, rerun, lastSave, calls, metrics, resolver>>

\* client.ListAllIssues, unless --labels-only
Fetch(w) ==
  /\ run.phase = "running"
  /\ run.workers[w].pc = "started"
  /\ IF run.flags.labelsOnly
     THEN run' = [run EXCEPT !.workers[w].pc = "synced"]
     ELSE \E fetchFails \in Failing(run.workers[w].repoName) :
            run' = IF fetchFails
                   THEN [Collect(run, w, "issues") EXCEPT
                           !.workers[w].pc = "synced",
                           !.workers[w].syncErr = "issues"]
                   ELSE [run EXCEPT !.workers[w].pc = "upserting"]
  /\ UNCHANGED <<db, now, remote, lastSync, rerun, lastSave, calls, tracker, metrics, resolver>>

\* the loop over the fetched issues
Upsert(w) ==
  /\ run.phase = "running"
  /\ run.workers[w].pc = "upserting"
  /\ LET issues == ListAllIssues(remote, run.workers[w].repoName)
     IN /\ db' = IF run.flags.dryRun THEN db
                 ELSE SyncIssues(db, run.workers[w].dbRepoID, issues,
                                 DOMAIN issues, run.flags.withTimeline, now)
        /\ Len(db'.status_transitions) <= MaxTransitions
        /\ Len(db'.blocked_periods) <= MaxBlockedRows
        /\ run' = [run EXCEPT
                     !.workers[w].pc = "synced",
                     !.workers[w].itemsSynced =
                        IF run.flags.dryRun THEN 0 ELSE Len(issues)]
  /\ UNCHANGED <<now, remote, lastSync, rerun, lastSave, calls, tracker, metrics, resolver>>

\* the PR section (the pull_requests table is not carried) and the
\* completion block
Finish(w) ==
  /\ run.phase = "running"
  /\ run.workers[w].pc = "synced"
  /\ \E prFails \in Failing(run.workers[w].repoName) :
       LET me == run.workers[w]
           withPRs == run.flags.withPRs /\ ~run.flags.labelsOnly
           r1 == IF prFails THEN Collect(run, w, "PRs") ELSE run
       IN /\ prFails => withPRs
          /\ run' = [r1 EXCEPT !.workers[w].pc = "exiting",
                                !.workers[w].completed = TRUE]
          /\ db' = IF run.flags.dryRun THEN db
                   ELSE AutoSnapshot(
                          UpdateRepoSyncTime(
                            RecordSyncComplete(db, me.syncID, me.itemsSynced,
                                               me.syncErr, now),
                            me.dbRepoID, now),
                          me.dbRepoID, now)
  /\ UNCHANGED <<now, remote, lastSync, rerun, lastSave, calls, tracker, metrics, resolver>>

\* the deferred calls: <-sem, then wg.Done()
Exit(w) ==
  /\ run.phase = "running"
  /\ run.workers[w].pc = "exiting"
  /\ run' = [run EXCEPT !.sem = @ - 1, !.workers[w].holds = FALSE,
                         !.workers[w].pc = "done"]
  /\ UNCHANGED <<db, now, remote, lastSync, rerun, lastSave, calls, tracker, metrics, resolver>>

\* wg.Wait() and the report of the collected errors
RunReturn ==
  /\ run.phase = "running"
  /\ AllWorkersDone(run)
  /\ run' = [run EXCEPT !.phase = "returned", !.reported = run.syncErrors,
                         !.result = IF Len(run.syncErrors) > 0
                                    THEN "sync completed with errors" ELSE "ok"]
  /\ UNCHANGED <<db, now, remote, lastSync, rerun, lastSave, calls, tracker, metrics, resolver>>

WorkerStep ==
  \E w \in (IF run.phase = "idle" THEN {} ELSE Workers(run)) :
     \/ Acquire(w)
     \/ Begin(w)
     \/ Fetch(w)
     \/ Upsert(w)
     \/ Finish(w)
     \/ Exit(w)

RunNext ==
  \/ RemoteOpen
  \/ RunStart
  \/ WorkerStep
  \/ RunReturn

RunSpec == Init /\ [][RunNext]_vars

(***************************************************************************)
(* CFD snapshots written directly                                          *)
(***************************************************************************)
RepoIDs == {1, 2}

SnapshotInstants == {1, 2, 25}

CfdStatuses == {"backlog", "done"}

SnapshotCounts == {1, 2}

CountMaps ==
  UNION {[S -> SnapshotCounts] : S \in (SUBSET CfdStatuses) \ {{}}}

SaveCFDSnapshotCall ==
  /\ \E repoID \in RepoIDs, date \in SnapshotInstants, statusCounts \in CountMaps :
       /\ db' = SaveCFDSnapshot(db, repoID, date, statusCounts)
       /\ lastSave' = Some([repo |-> repoID, date |-> date, counts |-> statusCounts])
  /\ UNCHANGED <<now, remote, lastSync, rerun, calls, run, tracker, metrics, resolver>>

CfdNext == SaveCFDSnapshotCall

CfdSpec == Init /\ [][CfdNext]_vars

(***************************************************************************)
(* Concurrent GetOrCreateOrg / GetOrCreateRepo callers; each SQL statement *)
(* is one step of the single connection                                    *)
(***************************************************************************)
OrgNames == {"acme", "globex"}

RepoArgs ==
  {[orgID |-> 1, name |-> "api", fullName |-> "acme/api"],
   [orgID |-> 1, name |-> "web", fullName |-> "acme/web"]}

OtherVars == <<now, remote, lastSync, rerun, lastSave, run, tracker, metrics, resolver>>

\* the SELECT of GetOrCreateOrg
OrgSelect(c) ==
  /\ calls[c].pc = "idle"
  /\ calls[c].made < MaxCalls
  /\ \E name \in OrgNames :
       calls' = [calls EXCEPT ![c] =
                   [pc |-> "selected", kind |-> "org", arg |-> Some(name),
                    found |-> SelectOrg(db, name), result |-> Null,
                    err |-> FALSE, made |-> @.made + 1]]
  /\ UNCHANGED <<db, OtherVars>>

\* the rest of GetOrCreateOrg: INSERT on sql.ErrNoRows, then return
OrgFinish(c) ==
  /\ calls[c].pc = "selected"
  /\ calls[c].kind = "org"
  /\ LET name == calls[c].arg[1]
     IN IF calls[c].found # Null
        THEN /\ calls' = [calls EXCEPT ![c].pc = "done", ![c].result = calls[c].found]
             /\ UNCHANGED db
        ELSE IF OrgConflict(db, name)
        THEN /\ calls' = [calls EXCEPT ![c].pc = "done", ![c].err = TRUE]
             /\ UNCHANGED db
        ELSE /\ db' = [db EXCEPT !.organizations =
                         Append(@, [id |-> NextId(@), name |-> name])]
             /\ calls' = [calls EXCEPT ![c].pc = "done",
                                       ![c].result = Some(NextId(db.organizations))]
  /\ UNCHANGED OtherVars

\* the SELECT of GetOrCreateRepo
RepoSelect(c) ==
  /\ calls[c].pc = "idle"
  /\ calls[c].made < MaxCalls
  /\ \E a \in RepoArgs :
       calls' = [calls EXCEPT ![c] =
                   [pc |-> "selected", kind |-> "repo", arg |-> Some(a),
                    found |-> SelectRepo(db, a.fullName), result |-> Null,
                    err |-> FALSE, made |-> @.made + 1]]
  /\ UNCHANGED <<db, OtherVars>>

\* the rest of GetOrCreateRepo: INSERT on sql.ErrNoRows, then return
RepoFinish(c) ==
  /\ calls[c].pc = "selected"
  /\ calls[c].kind = "repo"
  /\ LET a == calls[c].arg[1]
     IN IF calls[c].found # Null
        THEN /\ calls' = [calls EXCEPT ![c].pc = "done", ![c].result = calls[c].found]
             /\ UNCHANGED db
        ELSE IF RepoConflict(db, a.orgID, a.name, a.fullName)
        THEN /\ calls' = [calls EXCEPT ![c].pc = "done", ![c].err = TRUE]
             /\ UNCHANGED db
        ELSE /\ db' = [db EXCEPT !.repositories =
                         Append(@, [id |-> NextId(@), org_id |-> a.orgID,
                                    name |-> a.name, full_name |-> a.fullName,
                                    last_sync_at |-> Null])]
             /\ calls' = [calls EXCEPT ![c].pc = "done",
                                       ![c].result = Some(NextId(db.repositories))]
  /\ UNCHANGED OtherVars

\* the caller takes the returned value and may call again
CallReturn(c) ==
  /\ calls[c].pc = "done"
  /\ calls[c].made < MaxCalls
  /\ calls' = [calls EXCEPT ![c].pc = "idle"]
  /\ UNCHANGED <<db, OtherVars>>

OrgNext ==
  \E c \in Callers :
     \/ OrgSelect(c)
     \/ OrgFinish(c)
     \/ RepoSelect(c)
     \/ RepoFinish(c)
     \/ CallReturn(c)

OrgSpec == Init /\ [][OrgNext]_vars

(***************************************************************************)
(* The metrics command over one repository.  Times are whole hours; a      *)
(* float64 of the code is an exact rational [num, den] or, after           *)
(* math.Round(x*10)/10, a whole number of tenths.  Median, P85, StdDev,    *)
(* WIP age statistics and density are not carried; an aging issue is       *)
(* carried as its AgeDays, a bottleneck message as the values it formats.  *)
(***************************************************************************)
\* statuses := []string{...}
Statuses == <<"backlog", "ready", "in-progress", "review", "testing", "done">>

\* --days
MetricsDays == {1, 2}

\* lead_time_hours of the issues closed inside the window
ClosedLeadInputs ==
  {<<>>, <<0>>, <<48, 0>>, <<120, 120>>, <<120, 120, 120, 120>>}

RECURSIVE Zeros(_)
Zeros(n) == IF n = 0 THEN <<>> ELSE Append(Zeros(n - 1), 0)

\* lead_time_hours and cycle_time_hours of the issues closed inside the
\* window: issues without a cycle time, and issues that went through
\* in-progress
ClosedInputs ==
  {[leads |-> l, cycles |-> Zeros(Len(l))] : l \in ClosedLeadInputs}
    \cup {[leads |-> <<240, 480>>, cycles |-> <<120, 0>>],
          [leads |-> <<60>>, cycles |-> <<30>>]}

\* age_hours of an open issue of the board
AgeInputs == {24, 480}

\* settings.wip_limits
WIPLimits == ("status: ready" :> 1) @@ ("status: in-progress" :> 3)

\* the issues of the repository: open ones per status label with the age of
\* the ready and of the in-progress ones, closed ones with their lead and
\* cycle time and the status label they were closed with, and the number of
\* issues created inside the window
MetricsInputs ==
  {[open |-> ("backlog" :> b) @@ ("ready" :> r) @@ ("in-progress" :> p)
               @@ ("review" :> v),
    ageReady |-> ar, ageProgress |-> ap, arrivals |-> a,
    closedLeads |-> c.leads, closedCycles |-> c.cycles, closedStatus |-> cs,
    days |-> d] :
     b \in {0, 3}, r \in {0, 2}, p \in {0, 4, 10}, v \in {0, 3},
     ar \in AgeInputs, ap \in AgeInputs, a \in {0, 4}, c \in ClosedInputs,
     cs \in {"done", ""}, d \in MetricsDays}

\* math.Round of a / b for b > 0: half away from zero
RoundDiv(a, b) ==
  IF a >= 0 THEN (2 * a + b) \div (2 * b)
  ELSE 0 - ((2 * (0 - a) + b) \div (2 * b))

Rat(n, d) == [num |-> n, den |-> d]

RECURSIVE SumSeq(_, _)
SumSeq(values, k) ==
  IF k > Len(values) THEN 0 ELSE values[k] + SumSeq(values, k + 1)

SeqMin(values) ==
  CHOOSE v \in {values[k] : k \in DOMAIN values} :
     \A k \in DOMAIN values : v <= values[k]

SeqMax(values) ==
  CHOOSE v \in {values[k] : k \in DOMAIN values} :
     \A k \in DOMAIN values : v >= values[k]

\* TimeStats{}
ZeroTimeStats == [Count |-> 0, Average |-> 0, Min |-> 0, Max |-> 0]

\* values are hours; the code is handed hours / 24 and rounds to tenths of days
calculateTimeStats(values) ==
  IF Len(values) = 0 THEN ZeroTimeStats
  ELSE [Count |-> Len(values),
        Average |-> RoundDiv(10 * SumSeq(values, 1), HoursPerDay * Len(values)),
        Min |-> RoundDiv(10 * SeqMin(values), HoursPerDay),
        Max |-> RoundDiv(10 * SeqMax(values), HoursPerDay)]

\* SELECT ... FROM wip_summary WHERE repo = ?, grouped by status
GetWIPSummary(in) ==
  LET open == {x \in DOMAIN in.open : in.open[x] > 0}
      closed == IF in.closedStatus = "done" /\ Len(in.closedLeads) > 0
                THEN {"done"} ELSE {}
  IN [x \in open \cup closed |->
        IF x \in open THEN in.open[x] ELSE Len(in.closedLeads)]

\* m.WIP[status]: a missing key reads as 0
WipCount(wip, status) == IF status \in DOMAIN wip THEN wip[status] ELSE 0

RECURSIVE FlowLoad(_, _)
FlowLoad(wip, k) ==
  IF k > Len(Statuses) THEN 0
  ELSE WipCount(wip, Statuses[k]) + FlowLoad(wip, k + 1)

\* the lead times kept: if issue.LeadTimeHours > 0
PositiveLeads(leads) == SelectSeq(leads, LAMBDA h : h > 0)

ZeroRate == [Total |-> 0, PerDay |-> Rat(0, 1)]

\* Throughput.Total and Throughput.PerDay
Throughput(closed, days) ==
  IF Len(closed) > 0
  THEN [Total |-> Len(closed), PerDay |-> Rat(Len(closed), days)]
  ELSE ZeroRate

\* LittlesLaw{}
ZeroLittlesLaw == [CalculatedWIP |-> Rat(0, 1), ActualWIP |-> 0, Variance |-> 0]

\* the Little's Law block of collectKanbanMetrics; Variance is in tenths of
\* a percent
LittlesLaw(wip, perDay, average) ==
  LET activeWIP == WipCount(wip, "ready") + WipCount(wip, "in-progress")
                     + WipCount(wip, "review") + WipCount(wip, "testing")
      calc == Rat(perDay.num * average, perDay.den * 10)
  IN IF perDay.num > 0 /\ average > 0
     THEN [CalculatedWIP |-> calc, ActualWIP |-> activeWIP,
           Variance |-> IF calc.num > 0
                        THEN RoundDiv((activeWIP * calc.den - calc.num) * 1000,
                                      calc.num)
                        ELSE 0]
     ELSE ZeroLittlesLaw

RECURSIVE Repeat(_, _)
Repeat(x, n) == IF n = 0 THEN <<>> ELSE Append(Repeat(x, n - 1), x)

\* age_hours of the board issues that are neither done nor in the backlog
ActiveAges(in) ==
  Repeat(in.ageProgress, in.open["in-progress"])
    \o Repeat(in.ageReady, in.open["ready"])
    \o Repeat(HoursPerDay, in.open["review"])

\* q with x put before the first element smaller than x
InsertDesc(q, x) ==
  LET before == {k \in DOMAIN q : q[k] >= x}
      n == Cardinality(before)
  IN SubSeq(q, 1, n) \o <<x>> \o SubSeq(q, n + 1, Len(q))

\* sort.Slice(m.AgingIssues, AgeDays descending)
RECURSIVE SortDesc(_, _)
SortDesc(q, k) ==
  IF k > Len(q) THEN <<>> ELSE InsertDesc(SortDesc(q, k + 1), q[k])

AgingLimit == 10

\* m.AgingIssues: AgeDays in tenths, oldest first, at most ten
AgingIssues(ages) ==
  LET days == [k \in DOMAIN ages |-> RoundDiv(10 * ages[k], HoursPerDay)]
      sorted == SortDesc(days, 1)
  IN IF Len(sorted) > AgingLimit THEN SubSeq(sorted, 1, AgingLimit) ELSE sorted

\* the cycle times kept: if issue.CycleTimeHours > 0
CycleTimes(in) == SelectSeq(in.closedCycles, LAMBDA h : h > 0)

\* the lead times of the issues that have a cycle time
WorkflowLeadTimes(in) ==
  LET idx == {k \in DOMAIN in.closedLeads :
                in.closedCycles[k] > 0 /\ in.closedLeads[k] > 0}
  IN SelectSeq([k \in DOMAIN in.closedLeads |->
                  IF k \in idx THEN in.closedLeads[k] ELSE 0],
               LAMBDA h : h > 0)

\* the flow efficiency block of collectMetricsCached, in percent
FlowEfficiency(in) ==
  LET cycle == calculateTimeStats(CycleTimes(in))
      workflowLead == calculateTimeStats(WorkflowLeadTimes(in))
  IN IF Len(CycleTimes(in)) > 0 /\ Len(WorkflowLeadTimes(in)) > 0
        /\ workflowLead.Average > 0
     THEN RoundDiv(cycle.Average * 100, workflowLead.Average)
     ELSE 0

\* arrivalByRepo[repoName] / days; a repository without arrivals has no key
ArrivalRate(in) == IF in.arrivals > 0 THEN Rat(in.arrivals, in.days) ELSE Rat(0, 1)

Signal(rule, status, count, limit) ==
  [rule |-> rule, status |-> status, count |-> count, limit |-> limit]

\* an order in which `range m.WIP` can visit the keys: Go leaves it
\* unspecified, two of the possible orders are carried
RangeOrder(wip, reversed) ==
  LET keys == SelectSeq(Statuses, LAMBDA x : x \in DOMAIN wip)
  IN IF reversed THEN [k \in DOMAIN keys |-> keys[Len(keys) + 1 - k]] ELSE keys

\* the WIP limit loop over order[k..]
RECURSIVE WipLimitSignals(_, _, _, _)
WipLimitSignals(wip, limits, order, k) ==
  IF k > Len(order) THEN <<>>
  ELSE LET status == order[k]
           key == "status: " \o status
           hit == key \in DOMAIN limits /\ wip[status] > limits[key]
       IN (IF hit THEN <<Signal("WIP LIMIT", status, wip[status], limits[key])>>
           ELSE <<>>)
            \o WipLimitSignals(wip, limits, order, k + 1)

StaleDays == 14

identifyBottlenecks(m, reversed) ==
  LET arrival == m.ArrivalRate
      departure == m.DepartureRate
      staleCount == Cardinality({k \in DOMAIN m.AgingIssues :
                                   m.AgingIssues[k] > StaleDays * 10})
      deviation == IF m.LittlesLaw.Variance < 0 THEN 0 - m.LittlesLaw.Variance
                   ELSE m.LittlesLaw.Variance
  IN WipLimitSignals(m.WIP, m.WIPLimits, RangeOrder(m.WIP, reversed), 1)
     \o (IF 2 * arrival.num * departure.den > 3 * departure.num * arrival.den
            /\ 2 * arrival.num > arrival.den
         THEN <<Signal("OVERLOAD", "", 0, 0)>> ELSE <<>>)
     \o (IF WipCount(m.WIP, "review") > WipCount(m.WIP, "in-progress") * 2
            /\ WipCount(m.WIP, "review") > 2
         THEN <<Signal("REVIEW BOTTLENECK", "", 0, 0)>> ELSE <<>>)
     \o (IF WipCount(m.WIP, "testing") > WipCount(m.WIP, "review") * 2
            /\ WipCount(m.WIP, "testing") > 2
         THEN <<Signal("TESTING BOTTLENECK", "", 0, 0)>> ELSE <<>>)
     \o (IF staleCount > 0
         THEN <<Signal("STALE ITEMS", "", staleCount, 0)>> ELSE <<>>)
     \o (IF deviation > 500
         THEN <<Signal("FLOW INSTABILITY", "", m.LittlesLaw.Variance, 0)>>
         ELSE <<>>)

\* collectMetricsCached for the one repository of the store
collectMetricsCached(in, reversed) ==
  LET wip == GetWIPSummary(in)
      lead == IF Len(in.closedLeads) > 0
              THEN calculateTimeStats(PositiveLeads(in.closedLeads))
              ELSE ZeroTimeStats
      tp == Throughput(in.closedLeads, in.days)
      m == [WIP |-> wip, WIPLimits |-> WIPLimits, FlowLoad |-> FlowLoad(wip, 1),
            Throughput |-> tp, LeadTime |-> lead, LittlesLaw |-> ZeroLittlesLaw,
            AgingIssues |-> AgingIssues(ActiveAges(in)),
            CycleTime |-> IF Len(in.closedLeads) > 0
                          THEN calculateTimeStats(CycleTimes(in))
                          ELSE ZeroTimeStats,
            FlowEfficiency |-> IF Len(in.closedLeads) > 0
                               THEN FlowEfficiency(in) ELSE 0,
            ArrivalRate |-> ArrivalRate(in), DepartureRate |-> tp.PerDay,
            Bottlenecks |-> <<>>]
  IN IF DOMAIN wip = {}
     THEN [err |-> "no data found", metrics |-> <<>>]
     ELSE [err |-> "",
           metrics |-> <<[m EXCEPT
                            !.Bottlenecks = identifyBottlenecks(m, reversed)]>>]

\* collectKanbanMetrics: WIP is the number of open issues per status label
collectKanbanMetrics(in, reversed) ==
  LET wip == [k \in {Statuses[i] : i \in DOMAIN Statuses} |->
                IF k \in DOMAIN in.open THEN in.open[k] ELSE 0]
      lead == IF Len(in.closedLeads) > 0
              THEN calculateTimeStats(PositiveLeads(in.closedLeads))
              ELSE ZeroTimeStats
      tp == Throughput(in.closedLeads, in.days)
      m == [WIP |-> wip, WIPLimits |-> WIPLimits, FlowLoad |-> FlowLoad(wip, 1),
            Throughput |-> tp, LeadTime |-> lead,
            LittlesLaw |-> LittlesLaw(wip, tp.PerDay, lead.Average),
            AgingIssues |-> AgingIssues(ActiveAges(in)),
            CycleTime |-> ZeroTimeStats, FlowEfficiency |-> 0,
            ArrivalRate |-> Rat(in.arrivals, in.days),
            DepartureRate |-> tp.PerDay, Bottlenecks |-> <<>>]
  IN [err |-> "",
      metrics |-> <<[m EXCEPT
                       !.Bottlenecks = identifyBottlenecks(m, reversed)]>>]

MetricsInit ==
  /\ db = EmptyDB
  /\ now = 1
  /\ remote = <<>>
  /\ lastSync = "none"
  /\ rerun = Null
  /\ lastSave = Null
  /\ calls = [c \in Callers |-> IdleCall(0)]
  /\ run = IdleRun
  /\ tracker = EmptyTracker
  /\ \E in \in MetricsInputs : metrics = [mode |-> "ready", in |-> in]
  /\ resolver = NoTimeline

\* kanban metrics, run once or run again over the same store
CollectCached ==
  /\ metrics.mode = "ready" \/ (metrics.mode = "cached" /\ metrics.prev = Null)
  /\ \E reversed \in BOOLEAN :
       metrics' = [mode |-> "cached", in |-> metrics.in,
                   out |-> collectMetricsCached(metrics.in, reversed),
                   prev |-> IF metrics.mode = "ready" THEN Null
                            ELSE Some(metrics.out)]
  /\ UNCHANGED <<db, now, remote, lastSync, rerun, lastSave, calls, run, tracker,
               resolver>>

\* kanban metrics --live, run once or run again over the same issues
CollectLive ==
  /\ metrics.mode = "ready" \/ (metrics.mode = "live" /\ metrics.prev = Null)
  /\ \E reversed \in BOOLEAN :
       metrics' = [mode |-> "live", in |-> metrics.in,
                   out |-> collectKanbanMetrics(metrics.in, reversed),
                   prev |-> IF metrics.mode = "ready" THEN Null
                            ELSE Some(metrics.out)]
  /\ UNCHANGED <<db, now, remote, lastSync, rerun, lastSave, calls, run, tracker,
               resolver>>

MetricsNext ==
  \/ CollectCached
  \/ CollectLive

MetricsSpec == MetricsInit /\ [][MetricsNext]_vars

(***************************************************************************)
(* The timeline resolver run over the label events of one issue            *)
(***************************************************************************)
\* the tracker records a label being added to the issue
TimelineLabeled ==
  /\ resolver.runs = <<>>
  /\ Len(resolver.events) < MaxEvents
  /\ \E l \in RemoteLabels \ resolver.labels :
       resolver' = [resolver EXCEPT
                      !.events = Append(@, Event("labeled", l, now)),
                      !.labels = @ \cup {l}]
  /\ UNCHANGED <<db, now, remote, lastSync, rerun, lastSave, calls, run, tracker,
               metrics>>

\* the tracker records a label being removed from the issue
TimelineUnlabeled ==
  /\ resolver.runs = <<>>
  /\ Len(resolver.events) < MaxEvents
  /\ \E l \in resolver.labels :
       resolver' = [resolver EXCEPT
                      !.events = Append(@, Event("unlabeled", l, now)),
                      !.labels = @ \ {l}]
  /\ UNCHANGED <<db, now, remote, lastSync, rerun, lastSave, calls, run, tracker,
               metrics>>

\* GetIssueTimeline called at the current time over the recorded events
Resolve ==
  /\ Len(resolver.runs) < MaxResolves
  /\ resolver' = [resolver EXCEPT
                    !.runs = Append(@, [at |-> now,
                                        result |-> GetIssueTimeline(
                                                     resolver.events, now)])]
  /\ UNCHANGED <<db, now, remote, lastSync, rerun, lastSave, calls, run, tracker,
               metrics>>

TimelineTick ==
  /\ now < MaxResolveTime
  /\ now' = now + 1
  /\ UNCHANGED <<db, remote, lastSync, rerun, lastSave, calls, run, tracker,
               metrics, resolver>>

TimelineNext ==
  \/ TimelineLabeled
  \/ TimelineUnlabeled
  \/ Resolve
  \/ TimelineTick

TimelineSpec == Init /\ [][TimelineNext]_vars

(***************************************************************************)
(* Properties                                                              *)
(***************************************************************************)
StoredStatus(st, number) ==
  IF number \in DOMAIN st.issues /\ st.issues[number].current_status # Null
  THEN st.issues[number].current_status[1] ELSE ""

\* the instant a nullable DATETIME column holds
InstantOf(v) == IF v = Null THEN Null ELSE Some(v[1][1])

EnteredKept(before, after) ==
  \A n \in DOMAIN before.issues, col \in EnteredColumns :
     before.issues[n][col] # Null =>
        /\ n \in DOMAIN after.issues
        /\ after.issues[n][col] = before.issues[n][col]

\* C1: once an entered_<status>_at column of an issue is non-null, no
\* UpsertIssue call changes it, whatever status the call brings.
C1_EnteredNeverChangedByUpsert ==
  [][EnteredKept(db, db') \/ ~UpsertIssueCall]_vars

\* an upsert stamped in-progress at sync time, a later upsert moved the issue
\* on, and the stamp is still there
C1_Witness ==
  \E n \in DOMAIN db.issues :
     /\ db.issues[n].entered_progress_at # Null
     /\ db.issues[n].entered_progress_at[1][2] = "sql"
     /\ db.issues[n].current_status = Some("done")
     /\ Len(db.status_transitions) >= 2

EnteredInstantsKept(before, after) ==
  \A n \in DOMAIN before.issues, col \in EnteredColumns :
     before.issues[n][col] # Null =>
        InstantOf(after.issues[n][col]) = InstantOf(before.issues[n][col])

\* C2: UpdateIssueTimestamps writes a timeline timestamp only into an
\* entered_<status>_at column that is null; a column that already holds a
\* value keeps it.
C2_TimelineFillsOnlyNull ==
  [][EnteredInstantsKept(db, db') \/ ~UpdateIssueTimestampsCall]_vars

\* C3: a sync repeated over an unchanged remote record set appends no
\* StatusTransition row.
C3_RerunAppendsNoTransition ==
  rerun # Null => db.status_transitions = rerun[1].status_transitions

\* a repeated sync has run over an issue the earlier syncs moved between
\* statuses
C3_Witness ==
  /\ rerun # Null
  /\ \E k \in DOMAIN db.status_transitions :
        db.status_transitions[k].from_status # Null

DataFields(row) ==
  [current_status |-> row.current_status,
   current_priority |-> row.current_priority,
   is_blocked |-> row.is_blocked,
   entered_ready_at |-> row.entered_ready_at,
   entered_progress_at |-> row.entered_progress_at,
   entered_review_at |-> row.entered_review_at,
   entered_testing_at |-> row.entered_testing_at,
   entered_done_at |-> row.entered_done_at,
   lead_time_hours |-> row.lead_time_hours,
   cycle_time_hours |-> row.cycle_time_hours,
   blocked_time_hours |-> row.blocked_time_hours]

\* C4: a sync repeated with the same options over an unchanged remote record
\* set leaves every data field of every issue as the first run left it.
C4_RerunChangesNoField ==
  rerun # Null =>
    \A n \in DOMAIN db.issues :
       /\ n \in DOMAIN rerun[1].issues
       /\ DataFields(db.issues[n]) = DataFields(rerun[1].issues[n])

\* C5: a sync with timeline repeated over an unchanged remote adds no
\* BlockedPeriod row.
C5_RerunAddsNoBlockedPeriod ==
  rerun # Null => db.blocked_periods = rerun[1].blocked_periods

CfdRowsOf(table, repoID, day) ==
  {r \in BagToSet(table) : r.repo_id = repoID /\ r.snapshot_date = day}

\* C6: after two SaveCFDSnapshot calls for the same repository and calendar
\* day, the rows of that day are exactly one row per status of the second
\* call, with its counts.
C6_SecondSnapshotReplacesDay ==
  [][(/\ SaveCFDSnapshotCall
      /\ lastSave # Null
      /\ lastSave[1].repo = lastSave'[1].repo
      /\ FormatDate(lastSave[1].date) = FormatDate(lastSave'[1].date))
     => LET c2 == lastSave'[1]
            day == FormatDate(c2.date)
        IN /\ CfdRowsOf(db'.cfd_data, c2.repo, day) =
                {[repo_id |-> c2.repo, snapshot_date |-> day, status |-> x,
                  cumulative_count |-> c2.counts[x]] : x \in DOMAIN c2.counts}
           /\ \A r \in CfdRowsOf(db'.cfd_data, c2.repo, day) :
                 CopiesIn(r, db'.cfd_data) = 1]_vars

\* C7: an issue whose entered_progress_at is null has a null
\* cycle_time_hours.
C7_NoProgressNoCycleTime ==
  \A n \in DOMAIN db.issues :
     db.issues[n].entered_progress_at = Null =>
        db.issues[n].cycle_time_hours = Null

RowsNamed(table, field, value) ==
  {k \in DOMAIN table : table[k][field] = value}

\* C8: under every interleaving of GetOrCreateOrg / GetOrCreateRepo callers
\* there is at most one row per organization name and per repository full
\* name, and every call that returns a row returns the id of that one row.
C8_GetOrCreateOneRowPerName ==
  /\ \A name \in OrgNames :
        Cardinality(RowsNamed(db.organizations, "name", name)) <= 1
  /\ \A a \in RepoArgs :
        Cardinality(RowsNamed(db.repositories, "full_name", a.fullName)) <= 1
  /\ \A c \in Callers :
        (calls[c].pc = "done" /\ ~calls[c].err) =>
           IF calls[c].kind = "org"
           THEN \E k \in DOMAIN db.organizations :
                   /\ db.organizations[k].name = calls[c].arg[1]
                   /\ Some(db.organizations[k].id) = calls[c].result
           ELSE \E k \in DOMAIN db.repositories :
                   /\ db.repositories[k].full_name = calls[c].arg[1].fullName
                   /\ Some(db.repositories[k].id) = calls[c].result

\* two callers raced on one organization name past the SELECT, one inserted,
\* and a later call of the winner got the same id back
C8_Witness ==
  \E c, d \in Callers :
     /\ c # d
     /\ calls[c].pc = "done" /\ calls[c].kind = "org" /\ ~calls[c].err
     /\ calls[c].made = 2 /\ calls[c].found # Null
     /\ calls[d].pc = "done" /\ calls[d].kind = "org"
     /\ calls[d].arg = calls[c].arg
     /\ calls[d].found = Null
     /\ Len(db.organizations) >= 1

UpsertAppends(before, after, issue) ==
  LET old == StoredStatus(before, issue.Number)
      n == Len(before.status_transitions)
  IN /\ Len(after.status_transitions) >= n
     /\ SubSeq(after.status_transitions, 1, n) = before.status_transitions
     /\ IF old # issue.CurrentStatus
        THEN /\ Len(after.status_transitions) = n + 1
             /\ after.status_transitions[n + 1].issue_id = IssueID(after, issue.Number)
             /\ after.status_transitions[n + 1].from_status = nullString(old)
             /\ after.status_transitions[n + 1].to_status = issue.CurrentStatus
        ELSE Len(after.status_transitions) = n

\* C9: UpsertIssue appends exactly one StatusTransition, from the stored
\* status (empty for a new issue) to the incoming one, exactly when the two
\* differ, and none otherwise.  A step is the call UpsertIssue(issue) when it
\* leaves the status of issue stored and the store equals the call's result.
C9_UpsertAppendsOnChange ==
  [][now' = now =>
       \A issue \in InputIssues(now) :
          \/ UpsertAppends(db, db', issue)
          \/ StoredStatus(db', issue.Number) # issue.CurrentStatus
          \/ db' # UpsertIssue(db, issue, now)]_vars

\* the ledger holds the initial transition of an issue and a later change
C9_Witness ==
  /\ Len(db.status_transitions) = 2
  /\ db.status_transitions[1].from_status = Null
  /\ db.status_transitions[2].from_status =
        Some(db.status_transitions[1].to_status)
  /\ db.status_transitions[2].to_status # db.status_transitions[1].to_status

\* C10: an issue whose stored current status is a tracked status has that
\* status's entered_<status>_at set.
C10_CurrentTrackedStatusStamped ==
  \A n \in DOMAIN db.issues :
     LET s == StoredStatus(db, n)
     IN s \in TrackedStatuses => db.issues[n][ColumnOf(s)] # Null

\* C11: the transition ledger is append-only: every step of UpsertIssue,
\* UpsertIssueBatch, RecordStatusTransition, UpdateIssueTimestamps,
\* RecalcCycleTime and SaveCFDSnapshot keeps every existing StatusTransition
\* row, in place and unchanged.
C11_LedgerAppendOnly ==
  [][/\ Len(db'.status_transitions) >= Len(db.status_transitions)
     /\ SubSeq(db'.status_transitions, 1, Len(db.status_transitions)) =
           db.status_transitions]_vars

\* the ledger is full, a snapshot was saved, and a batch upsert has since
\* moved the issue to a status the ledger's last row does not name
C11_Witness ==
  /\ Len(db.status_transitions) = MaxTransitions
  /\ db.cfd_data # EmptyBag
  /\ \E n \in DOMAIN db.issues :
        StoredStatus(db, n) #
           db.status_transitions[Len(db.status_transitions)].to_status

\* C17: as stated: a sync of a repository whose remote label list is
\* identical to the cached label list issues zero label create/edit calls.
C17_IdenticalRemoteNoCalls ==
  (tracker.sync # Null /\ tracker.sync[1].remote = tracker.sync[1].cached)
     => tracker.calls = <<>>

ConfigInCache(config, cached) ==
  \A i \in DOMAIN config : config[i] \in cached

\* C17, amended: a sync of a repository whose cached label list holds every
\* configured label with the same color and description issues zero label
\* create/edit calls, whatever the remote label list holds.
C17_CachedConfigNoCalls ==
  (tracker.sync # Null
     /\ ConfigInCache(tracker.sync[1].config, tracker.sync[1].cached))
     => tracker.calls = <<>>

\* a sync ran with every configured label cached while the remote list had
\* lost one of them
C17_Witness ==
  /\ tracker.sync # Null
  /\ ConfigInCache(tracker.sync[1].config, tracker.sync[1].cached)
  /\ tracker.sync[1].remote # tracker.sync[1].cached
  /\ \E i \in DOMAIN tracker.sync[1].config :
        tracker.sync[1].config[i] \notin tracker.sync[1].remote
\* the sync_history row a worker inserted with RecordSyncStart
SyncRecord(st, syncID) ==
  st.sync_history[CHOOSE k \in DOMAIN st.sync_history :
                    st.sync_history[k].id = syncID]

\* C12: in every run mode a worker that has registered its sync record and
\* has exited leaves it 'completed' or 'failed' with a completion time, and
\* once the run has returned no record is 'running'
C12_NoRecordLeftRunning ==
  run.phase # "idle" =>
    /\ \A w \in Workers(run) :
          (run.workers[w].pc = "done" /\ run.workers[w].syncID # 0) =>
             /\ SyncRecord(db, run.workers[w].syncID).status
                   \in {"completed", "failed"}
             /\ SyncRecord(db, run.workers[w].syncID).completed_at # Null
    /\ run.phase = "returned" =>
          \A k \in DOMAIN db.sync_history :
             db.sync_history[k].status # "running"

\* the workers that have acquired the semaphore and not yet released it
Holders(r) == {w \in Workers(r) : r.workers[w].holds}

\* C13: at every moment of a run the workers holding the semaphore are at
\* most the configured limit (5 when the setting is 0), the semaphore counts
\* exactly them, every worker past its acquire holds it until its deferred
\* release, and a worker that has returned, on any path, holds nothing
C13_SemaphoreBound ==
  run.phase # "idle" =>
    /\ Cardinality(Holders(run)) <= (IF run.setting = 0 THEN 5 ELSE run.setting)
    /\ run.sem = Cardinality(Holders(run))
    /\ \A w \in Workers(run) :
          run.workers[w].holds <=> run.workers[w].pc \notin {"spawned", "done"}

\* with limit 2 and three repositories, two workers hold the semaphore and
\* the third waits for a slot
C13_Witness ==
  /\ run.phase = "running"
  /\ run.setting = 2
  /\ Cardinality(Holders(run)) = 2
  /\ \E w \in Workers(run) : run.workers[w].pc = "spawned"
  /\ ~SemFree(run)

\* C14: when the run has returned every worker has finished; every worker
\* whose own get-or-create did not fail ran through its completion block,
\* whatever failed in the other workers; and the errors reported are exactly
\* the failures of all workers
C14_FailureIsolation ==
  run.phase = "returned" =>
    /\ \A w \in Workers(run) :
          /\ run.workers[w].pc = "done"
          /\ "repo" \notin run.workers[w].failures => run.workers[w].completed
          /\ \A k \in run.workers[w].failures :
                \E i \in DOMAIN run.reported :
                   run.reported[i] = [repo |-> run.workers[w].repoName, kind |-> k]
    /\ \A i \in DOMAIN run.reported :
          \E w \in Workers(run) :
             /\ run.reported[i].repo = run.workers[w].repoName
             /\ run.reported[i].kind \in run.workers[w].failures
    /\ (run.result = "ok") <=> (\A w \in Workers(run) : run.workers[w].failures = {})

\* a run returned in which one repository failed at get-or-create and its
\* sibling still completed its sync without an error
C14_Witness ==
  /\ run.phase = "returned"
  /\ \E w1, w2 \in Workers(run) :
        /\ run.workers[w1].failures = {"repo"}
        /\ run.workers[w2].failures = {}
        /\ run.workers[w2].completed
        /\ run.workers[w1].repoName # run.workers[w2].repoName
  /\ Len(run.reported) = 1

\* C15: no two workers of a run are inside the issue loop over the issues
\* of the same repository at once, whatever target list the run was given
C15_OneWorkerPerRepository ==
  run.phase # "idle" =>
    \A w1, w2 \in Workers(run) :
       (/\ w1 # w2
        /\ run.workers[w1].pc = "upserting"
        /\ run.workers[w2].pc = "upserting"
        /\ ~run.flags.dryRun
        /\ ListAllIssues(remote, run.workers[w1].repoName) # <<>>) =>
          run.workers[w1].dbRepoID # run.workers[w2].dbRepoID

\* C16: once a worker of a run that is not a dry run has completed its sync
\* without an error, a CFD row dated today exists for its repository
C16_SnapshotAfterSync ==
  run.phase # "idle" =>
    \A w \in Workers(run) :
       (run.workers[w].completed /\ ~run.flags.dryRun
          /\ run.workers[w].failures = {}) =>
         \E row \in BagToSet(db.cfd_data) :
            /\ row.repo_id = run.workers[w].dbRepoID
            /\ row.snapshot_date = FormatDate(now)

\* C20: during and after a dry run every table is as it was when the run
\* started and the tracker has received no label create or edit
C20_DryRunChangesNothing ==
  (run.phase # "idle" /\ run.flags.dryRun) =>
    /\ db = run.before
    /\ tracker.calls = <<>>

\* a finished metrics command, cached or live
Collected == metrics.mode \in {"cached", "live"} /\ metrics.out.err = ""

\* C18: whenever the returned throughput per day and average lead time are
\* positive, the result of the cached and of the live computation carries
\* predicted WIP = throughput per day x average lead days, actual WIP =
\* ready + in-progress + review + testing, and variance = (actual - predicted)
\* / predicted in percent (rounded to a tenth); 2 closed in 1 day with a lead
\* of 5 days and 12 active issues give predicted 10 and variance +20%
C18_LittlesLaw ==
  Collected =>
    \A i \in DOMAIN metrics.out.metrics :
       LET m == metrics.out.metrics[i]
           active == WipCount(m.WIP, "ready") + WipCount(m.WIP, "in-progress")
                       + WipCount(m.WIP, "review") + WipCount(m.WIP, "testing")
           tp == m.Throughput.PerDay
           predicted == m.LittlesLaw.CalculatedWIP
       IN /\ (tp.num > 0 /\ m.LeadTime.Average > 0) =>
               /\ predicted.num * tp.den * 10
                    = tp.num * m.LeadTime.Average * predicted.den
               /\ m.LittlesLaw.ActualWIP = active
               /\ m.LittlesLaw.Variance
                    = RoundDiv((active * predicted.den - predicted.num) * 1000,
                               predicted.num)
          /\ (tp = Rat(2, 1) /\ m.LeadTime.Average = 50 /\ active = 12) =>
               /\ predicted.num = 10 * predicted.den
               /\ m.LittlesLaw.Variance = 200

\* C19: the cached computation returns no error, also for a store without
\* closed issues in the window and for a store without any issue, and then
\* the throughput and the lead-time statistics are zero-valued
C19_NoErrorForMissingData ==
  metrics.mode = "cached" =>
    /\ metrics.out.err = ""
    /\ Len(metrics.in.closedLeads) = 0 =>
          \A i \in DOMAIN metrics.out.metrics :
             /\ metrics.out.metrics[i].Throughput = ZeroRate
             /\ metrics.out.metrics[i].LeadTime = ZeroTimeStats

\* C21: of two transitions of the same issue, the one appended later never
\* carries an earlier instant than the one appended before it
C21_TransitionsMonotonic ==
  \A i, j \in DOMAIN db.status_transitions :
     (i < j /\ db.status_transitions[i].issue_id = db.status_transitions[j].issue_id)
       => InstantOf(db.status_transitions[i].transitioned_at)[1]
            <= InstantOf(db.status_transitions[j].transitioned_at)[1]

\* an issue first seen with a status that the remote set before the sync, and
\* a later sync that appended a second transition at its own, later, time
C21_Witness ==
  /\ Len(db.status_transitions) = 2
  /\ db.status_transitions[1].issue_id = db.status_transitions[2].issue_id
  /\ db.status_transitions[1].from_status = Null
  /\ InstantOf(db.status_transitions[1].transitioned_at)[1]
       < InstantOf(db.status_transitions[2].transitioned_at)[1]

\* C22: the sync record of a worker that ran its completion block is
\* 'failed' with a non-empty error string exactly when one of its steps
\* (label sync, issue fetch, PR fetch) reported an error, 'completed'
\* otherwise, and carries the number of issues the worker upserted
C22_PartialFailureRecorded ==
  (run.phase # "idle" /\ ~run.flags.dryRun) =>
    \A w \in Workers(run) :
       run.workers[w].completed =>
         LET rec == SyncRecord(db, run.workers[w].syncID)
         IN /\ rec.items_synced = run.workers[w].itemsSynced
            /\ (run.workers[w].failures # {})
                  <=> (rec.status = "failed" /\ rec.error_message # Null)
            /\ (run.workers[w].failures = {}) <=> (rec.status = "completed")

\* C30: after a label section whose remote label sync failed, the cache
\* still differs from the configuration, so the next sync with the same
\* configuration finds that the labels need syncing
C30_FailedLabelSyncRetried ==
  (tracker.sync # Null /\ tracker.sync[1].failed)
     => LabelsNeedSync(db, SyncedRepo, tracker.sync[1].config)

\* position of a rule group in the fixed order
RuleRank(rule) ==
  CASE rule = "WIP LIMIT" -> 1
    [] rule = "OVERLOAD" -> 2
    [] rule = "REVIEW BOTTLENECK" -> 3
    [] rule = "TESTING BOTTLENECK" -> 4
    [] rule = "STALE ITEMS" -> 5
    [] rule = "FLOW INSTABILITY" -> 6

\* C23: a metrics command run again over the same input returns the same
\* bottleneck signals in the same order, and the signals of every result
\* follow the fixed order of the rule groups
C23_BottlenecksDeterministic ==
  Collected =>
    \A i \in DOMAIN metrics.out.metrics :
       LET b == metrics.out.metrics[i].Bottlenecks
       IN /\ \A j, k \in DOMAIN b :
               j < k => RuleRank(b[j].rule) <= RuleRank(b[k].rule)
          /\ metrics.prev # Null =>
               b = metrics.prev[1].metrics[i].Bottlenecks

\* the open issues that are neither done nor in the backlog and are older
\* than 14 days
StaleIssues(in) ==
  {k \in DOMAIN ActiveAges(in) : ActiveAges(in)[k] > 14 * HoursPerDay}

\* C24: the stale-items signal is present exactly when an active issue is
\* older than 14 days, and reports the number of such issues, also when
\* more than ten issues are that old
C24_StaleCount ==
  Collected =>
    \A i \in DOMAIN metrics.out.metrics :
       LET b == metrics.out.metrics[i].Bottlenecks
           stale == Cardinality(StaleIssues(metrics.in))
           found == {k \in DOMAIN b : b[k].rule = "STALE ITEMS"}
       IN /\ stale = 0 <=> found = {}
          /\ \A k \in found : b[k].count = stale

\* C25: the flow efficiency of the cached computation is the once-rounded
\* ratio, in percent, of the unrounded average cycle time to the unrounded
\* average lead time over the closed issues that have a cycle time; issues
\* (lead 10 d, cycle 5 d) and (lead 20 d, no cycle) give 50
C25_FlowEfficiencyUnrounded ==
  (metrics.mode = "cached" /\ metrics.out.err = "") =>
    \A i \in DOMAIN metrics.out.metrics :
       LET in == metrics.in
           subset == {k \in DOMAIN in.closedCycles : in.closedCycles[k] > 0}
           cycles == SumSeq([k \in DOMAIN in.closedCycles |->
                               IF k \in subset THEN in.closedCycles[k] ELSE 0], 1)
           leads == SumSeq([k \in DOMAIN in.closedLeads |->
                              IF k \in subset THEN in.closedLeads[k] ELSE 0], 1)
       IN /\ (subset # {} /\ leads > 0) =>
               metrics.out.metrics[i].FlowEfficiency
                 = RoundDiv(100 * cycles, leads)
          /\ (in.closedLeads = <<240, 480>> /\ in.closedCycles = <<120, 0>>) =>
               metrics.out.metrics[i].FlowEfficiency = 50

\* the blocked intervals of two results have the same bounds
SameIntervals(r1, r2) ==
  /\ Len(r1.BlockedPeriods) = Len(r2.BlockedPeriods)
  /\ \A k \in DOMAIN r1.BlockedPeriods :
       /\ r1.BlockedPeriods[k].Start = r2.BlockedPeriods[k].Start
       /\ r1.BlockedPeriods[k].End = r2.BlockedPeriods[k].End

\* the result reports an interval with no end
LeftOpen(r) == \E k \in DOMAIN r.BlockedPeriods : r.BlockedPeriods[k].End = 0

\* C26 as stated: two runs of the resolver over the same events return the
\* same first-entry times, the same blocked intervals with the same
\* durations and the same total of blocked hours, whenever each run happens,
\* also when the events leave a blocked interval open
C26_ResolverPure ==
  \A i, j \in DOMAIN resolver.runs :
     resolver.runs[i].result = resolver.runs[j].result

\* C26 amended: two runs over the same events return the same first-entry
\* times and the same bounds of the blocked intervals; durations and total
\* of blocked hours are the same when the events leave no interval open; an
\* interval left open lasts from its start to the time of the run
C26_ResolverPureWhenClosed ==
  \A i, j \in DOMAIN resolver.runs :
     LET r1 == resolver.runs[i].result
         r2 == resolver.runs[j].result
     IN /\ r1.StatusChanges = r2.StatusChanges
        /\ SameIntervals(r1, r2)
        /\ ~LeftOpen(r1) => r1 = r2
        /\ \A k \in DOMAIN r1.BlockedPeriods :
             r1.BlockedPeriods[k].End = 0 =>
               /\ r1.BlockedPeriods[k].Duration
                    = resolver.runs[i].at - r1.BlockedPeriods[k].Start
               /\ r1.TotalBlocked - r1.BlockedPeriods[k].Duration
                    = r2.TotalBlocked - r2.BlockedPeriods[k].Duration

C26_Witness ==
  /\ Len(resolver.runs) = 2
  /\ resolver.runs[1].at < resolver.runs[2].at
  /\ resolver.runs[1].result = resolver.runs[2].result
  /\ \E k \in DOMAIN resolver.runs[1].result.BlockedPeriods :
       /\ resolver.runs[1].result.BlockedPeriods[k].End # 0
       /\ resolver.runs[1].result.BlockedPeriods[k].Duration > 0

\* every issue's stored status is the to-status of the last ledger row of
\* the issue, or empty when the ledger holds no row of the issue
StatusMatchesLedger(st) ==
  \A n \in DOMAIN st.issues :
     LET rows == SelectSeq(st.status_transitions,
                           LAMBDA row : row.issue_id = st.issues[n].id)
     IN StoredStatus(st, n) = IF rows = <<>> THEN ""
                              ELSE rows[Len(rows)].to_status

\* C27: every write of issue rows (UpsertIssue, UpsertIssueBatch) that
\* starts with each stored status matching the issue's latest transition
\* ends with each stored status matching the issue's latest transition
C27_StatusMatchesLedger ==
  [][(db'.issues # db.issues /\ StatusMatchesLedger(db))
        => StatusMatchesLedger(db')]_vars

\* C28: a stored cycle_time_hours is never negative and never greater than
\* the lead_time_hours stored for the same issue, after any sequence of
\* syncs with or without timeline
C28_CycleTimeWithinLeadTime ==
  \A n \in DOMAIN db.issues :
     LET cycle == db.issues[n].cycle_time_hours
         lead == db.issues[n].lead_time_hours
     IN cycle # Null =>
          /\ cycle[1] >= 0
          /\ lead # Null => cycle[1] <= lead[1]

\* the tracker's issue carries the blocked label
CarriesBlocked(ri) ==
  \E k \in DOMAIN ri.Labels : ToLower(ri.Labels[k]) = "blocked"

\* C29: when a sync with timeline has run over the tracker's issues, the
\* is_blocked flag of every stored issue is true exactly when the issue
\* carries the blocked label
C29_BlockedFlagFollowsLabel ==
  lastSync = "timeline" =>
    \A n \in DOMAIN db.issues :
       n \in DOMAIN remote =>
         (db.issues[n].is_blocked <=> CarriesBlocked(remote[n]))

====
